---- MODULE Spec2Model ----
(***************************************************************************)
(* A model of testify/assertions.py: the assertion primitives of the       *)
(* Testify test framework.  A test body calls one assertion at a time;     *)
(* each call either returns normally or raises.  The state records the     *)
(* call being made, its outcome, and, for assert_raises, the enclosed      *)
(* block's lifecycle and the log of invocations of the callable.           *)
(***************************************************************************)
EXTENDS Integers, Sequences, FiniteSets, TLC

VARIABLES pc, call, outcome, fnCalls

vars == <<pc, call, outcome, fnCalls>>

(***************************************************************************)
(* Bounds of the model.                                                    *)
(***************************************************************************)
MaxInt == 2
MaxRows == 2
MaxCalls == 2
MaxExtraArgs == 1
MaxNum == 3
MaxTolNum == 3
TolDen == 2

(***************************************************************************)
(* Python values.  A value is a record with a type tag t, a character      *)
(* sequence s (text) and a number n.                                       *)
(***************************************************************************)
NoneVal == [t |-> "none", s |-> <<>>, n |-> 0]
PyStr(s) == [t |-> "str", s |-> s, n |-> 0]
PyInt(n) == [t |-> "int", s |-> <<>>, n |-> n]
PyFloat(n) == [t |-> "float", s |-> <<>>, n |-> n]
NaN == [t |-> "nan", s |-> <<>>, n |-> 0]

Chars == {"a", "1"}
Texts == {<<>>} \cup {<<c>> : c \in Chars} \cup {<<c, d>> : c \in Chars, d \in {"a"}}
Values == {PyStr(s) : s \in Texts} \cup {PyInt(n) : n \in 0..MaxInt}
            \cup {PyFloat(n) : n \in 0..MaxInt} \cup {NaN}
Messages == {NoneVal, PyStr(<<>>), PyStr(<<"m">>)}

\* isinstance(x, basestring)
IsText(x) == x.t = "str"
\* bool(x) for the values a message can be
Truthy(x) == IsText(x) /\ Len(x.s) > 0

\* x == y on built-in values: numbers by value (nan equals nothing), text by characters
PyEq(x, y) ==
    \/ x.t \in {"int", "float"} /\ y.t \in {"int", "float"} /\ x.n = y.n
    \/ IsText(x) /\ IsText(y) /\ x.s = y.s
    \/ x.t = "none" /\ y.t = "none"
\* x != y on built-in values
PyNe(x, y) == ~PyEq(x, y)

Digit(n) == CASE n = 0 -> "0" [] n = 1 -> "1" [] n = 2 -> "2" [] n = 3 -> "3"
              [] OTHER -> "9"
\* repr(x), as a character sequence
Repr(x) ==
    CASE IsText(x) -> <<"'">> \o x.s \o <<"'">>
      [] x.t = "int" -> <<Digit(x.n)>>
      [] x.t = "float" -> <<Digit(x.n), ".", "0">>
      [] x.t = "nan" -> <<"n", "a", "n">>
      [] OTHER -> <<"N", "o", "n", "e">>

(***************************************************************************)
(* Outcomes: a normal return, or an exception of some class carrying a     *)
(* message.                                                                *)
(***************************************************************************)
Returned == [kind |-> "ok", msg |-> NoneVal]
Raise(kind, msg) == [kind |-> kind, msg |-> msg]
Pending == [kind |-> "pending", msg |-> NoneVal]

\* the assert statement: `assert cond, message`
AssertStmt(cond, msg) == IF cond THEN Returned ELSE Raise("AssertionError", msg)

(***************************************************************************)
(* Exception classes and the subclass relation `except` matches by.        *)
(***************************************************************************)
Classes == {"BaseException", "Exception", "AssertionError", "ValueError",
            "LookupError", "KeyError", "TypeError", "KeyboardInterrupt"}
Base(c) ==
    CASE c = "Exception" -> "BaseException"
      [] c = "KeyboardInterrupt" -> "BaseException"
      [] c = "KeyError" -> "LookupError"
      [] c = "BaseException" -> "BaseException"
      [] OTHER -> "Exception"
RECURSIVE IsSubclass(_, _)
IsSubclass(c, k) ==
    IF c = k THEN TRUE
    ELSE IF c = "BaseException" THEN FALSE
    ELSE IsSubclass(Base(c), k)

\* what an enclosed block or a callable does: return, or raise one of these
BlockExceptions == {Raise(c, PyStr(<<m>>)) : c \in Classes, m \in {"x"}}
Behaviours == {Returned} \cup BlockExceptions

(***************************************************************************)
(* assert_not_reached and the assert_raises family.                        *)
(***************************************************************************)
\* "template" % args, kept as the template followed by its arguments
Format(template, args) == [t |-> "str", s |-> <<template>> \o args, n |-> 0]

AssertNotReached(message) ==
    IF Truthy(message)
    THEN AssertStmt(FALSE, message)
    ELSE AssertStmt(FALSE, PyStr(<<"egads! this line ought not to have been reached">>))

\* the generator of _assert_raises_context_manager running to its end
StopIteration == [kind |-> "StopIteration", msg |-> NoneVal]

\* GenResume with a bare `except:` in place of `except exception_class:`
GenResumeCatchAll(exception_class, thrown) ==
    IF thrown.kind = "ok"
    THEN AssertNotReached(Format("No exception was raised (expected %r)",
                                 <<exception_class>>))
    ELSE StopIteration

\* GenResume with assert_not_reached called inside the try body, after the
\* yield, instead of in the else clause
GenResumeInsideTry(exception_class, thrown) ==
    LET raised == IF thrown.kind = "ok"
                  THEN AssertNotReached(Format("No exception was raised (expected %r)",
                                               <<exception_class>>))
                  ELSE thrown
    IN IF IsSubclass(raised.kind, exception_class) THEN StopIteration ELSE raised

\* The generator resumed at its yield, with the block's exception thrown in
\* (or nothing, when the block completed): try / except exception_class / else.
GenResume(exception_class, thrown) ==
    IF thrown.kind = "ok"
    THEN AssertNotReached(Format("No exception was raised (expected %r)",
                                 <<exception_class>>))
    ELSE IF IsSubclass(thrown.kind, exception_class)
         THEN StopIteration
         ELSE thrown

\* leaving the `with` block of a @contextlib.contextmanager: the generator
\* stopping means a normal exit (a thrown exception is suppressed); whatever
\* the generator raises leaves the `with` statement
WithExit(exception_class, blockResult) ==
    LET g == GenResume(exception_class, blockResult)
    IN IF g.kind = "StopIteration" THEN Returned ELSE g

\* a callable given to assert_raises, and the non-callable 2
Fn(b) == [t |-> "fn", behaviour |-> b]
KwValue == [t |-> "int", behaviour |-> Returned]
KwNames == {"kwarg", "callable", "exception_class"}
KwargSets == {[n \in names |-> KwValue] : names \in SUBSET KwNames}
HasKw(kwargs, name) == name \in DOMAIN kwargs
WithoutKw(kwargs, names) == [n \in (DOMAIN kwargs) \ names |-> kwargs[n]]
ExtraArgs == UNION {[1..k -> 1..2] : k \in 0..MaxExtraArgs}
RaisesArgs == {<<k>> : k \in Classes}
                \cup {<<k, Fn(b)>> \o e : k \in Classes, b \in Behaviours, e \in ExtraArgs}

RECURSIVE Drop(_, _)
Drop(seq, k) == IF k = 0 \/ Len(seq) = 0 THEN seq ELSE Drop(Tail(seq), k - 1)

\* Binding a call _assert_raises(*args, **kwargs) to the parameters
\* (exception_class, callable, *args, **kwargs): a TypeError when a parameter
\* gets two values or none.
BindAssertRaises(args, kwargs) ==
    IF \/ Len(args) >= 1 /\ HasKw(kwargs, "exception_class")
       \/ Len(args) >= 2 /\ HasKw(kwargs, "callable")
    THEN [error |-> TRUE, why |-> "multiple values"]
    ELSE IF \/ Len(args) < 1 /\ ~HasKw(kwargs, "exception_class")
            \/ Len(args) < 2 /\ ~HasKw(kwargs, "callable")
    THEN [error |-> TRUE, why |-> "missing argument"]
    ELSE [error |-> FALSE,
          exception_class |-> IF Len(args) >= 1 THEN args[1]
                              ELSE kwargs["exception_class"],
          callable |-> IF Len(args) >= 2 THEN args[2] ELSE kwargs["callable"],
          args |-> Drop(args, 2),
          kwargs |-> WithoutKw(kwargs, {"exception_class", "callable"})]

\* callable(*args, **kwargs)
Invoke(callable) ==
    IF callable.t = "fn" THEN callable.behaviour
    ELSE Raise("TypeError", PyStr(<<"object is not callable">>))
InvokeLog(callable, args, kwargs) ==
    IF callable.t = "fn" THEN <<[args |-> args, kwargs |-> kwargs]>> ELSE <<>>

\* _assert_raises: the callable invoked inside the context manager
AssertRaisesDirect(args, kwargs) ==
    LET b == BindAssertRaises(args, kwargs)
    IN IF b.error
       THEN [outcome |-> Raise("TypeError", PyStr(<<b.why>>)), log |-> <<>>]
       ELSE [outcome |-> WithExit(b.exception_class, Invoke(b.callable)),
             log |-> InvokeLog(b.callable, b.args, b.kwargs)]

\* the dispatch of assert_raises
IsContextForm(args, kwargs) == Len(args) = 1 /\ DOMAIN kwargs = {}

(***************************************************************************)
(* _diff_message, assert_equal, assert_not_equal.                          *)
(***************************************************************************)
\* a function's return value
Return(v) == [kind |-> "ok", msg |-> v]

\* stringdiffer.highlight, an external function: kept uninterpreted
Highlight(l, r) == <<<<"highlighted l", l, r>>, <<"highlighted r", l, r>>>>

\* the two character sequences _diff_message hands to the highlighter
HighlightArgs(lhs, rhs) ==
    <<IF ~IsText(lhs) THEN Repr(lhs) ELSE lhs.s,
      IF ~IsText(rhs) THEN Repr(rhs) ELSE rhs.s>>

DiffMessage(lhs, rhs) ==
    LET a == HighlightArgs(lhs, rhs)
    IN Format("Diff: l: %s r: %s", Highlight(a[1], a[2]))

AssertEqual(lval, rval, message) ==
    IF Truthy(message)
    THEN AssertStmt(PyEq(lval, rval), message)
    ELSE AssertStmt(PyEq(lval, rval),
                    Format("assertion failed: l == r l: %r r: %r %s",
                           <<Repr(lval), Repr(rval), DiffMessage(lval, rval)>>))

\* str(x)
StrOf(x) == IF IsText(x) THEN x.s ELSE Repr(x)

\* AssertNotEqual asserting lval == rval when a message is given
AssertNotEqualSwapped(lval, rval, message) ==
    IF Truthy(message)
    THEN AssertStmt(PyEq(lval, rval), message)
    ELSE AssertStmt(PyNe(lval, rval),
                    Format("assertion failed: %s != %s", <<StrOf(lval), StrOf(rval)>>))

AssertNotEqual(lval, rval, message) ==
    IF Truthy(message)
    THEN AssertStmt(PyNe(lval, rval), message)
    ELSE AssertStmt(PyNe(lval, rval),
                    Format("assertion failed: %s != %s", <<StrOf(lval), StrOf(rval)>>))

(***************************************************************************)
(* assert_in_range, assert_within_tolerance, assert_starts_with.           *)
(***************************************************************************)
\* `message or default`
MessageOr(message, default) == IF Truthy(message) THEN message ELSE default

\* the keyword inclusive, False when omitted
InclusiveArgs == {"omitted", "True", "False"}
InclusiveOrDefault(arg) == IF arg = "omitted" THEN FALSE ELSE arg = "True"

\* InRangeCond with the exclusive form testing start <= val
InRangeCondHalfOpen(val, start, end, inclusive) ==
    IF inclusive
    THEN start <= val /\ val <= end
    ELSE start <= val /\ val < end

\* the asserted condition of assert_in_range: a chained comparison
InRangeCond(val, start, end, inclusive) ==
    IF inclusive
    THEN start <= val /\ val <= end
    ELSE start < val /\ val < end

AssertInRange(val, start, end, message, inclusive) ==
    IF inclusive
    THEN AssertStmt(InRangeCond(val, start, end, inclusive),
                    MessageOr(message, Format("! %s <= %r <= %r", <<start, val, end>>)))
    ELSE AssertStmt(InRangeCond(val, start, end, inclusive),
                    MessageOr(message, Format("! %s < %r < %r", <<start, val, end>>)))

\* Rationals as <<numerator, denominator>>, denominator nonzero.
Abs(x) == IF x < 0 THEN -x ELSE x
RatLess(p, q) ==
    IF p[2] * q[2] > 0
    THEN p[1] * q[2] < q[1] * p[2]
    ELSE p[1] * q[2] > q[1] * p[2]

\* RelativeError dividing by abs(lval)
RelativeErrorAbs(lval, rval) == <<Abs(lval - rval), Abs(lval)>>

\* abs(float(lval) - float(rval)) / float(lval)
RelativeError(lval, rval) == <<Abs(lval - rval), lval>>

\* the tolerances tried: tn / TolDen
Tolerances == {<<tn, TolDen>> : tn \in -1..MaxTolNum}

AssertWithinTolerance(lval, rval, tolerance, message) ==
    IF lval = 0
    THEN Raise("ZeroDivisionError", PyStr(<<"float division by zero">>))
    ELSE AssertStmt(RatLess(RelativeError(lval, rval), tolerance),
                    MessageOr(message, Format("%r !~= %r", <<lval, rval>>)))

IsPrefix(p, s) == Len(p) <= Len(s) /\ SubSeq(s, 1, Len(p)) = p

AssertStartsWith(val, prefix) ==
    IF ~IsText(val)
    THEN Raise("AttributeError", PyStr(<<"object has no attribute 'startswith'">>))
    ELSE IF ~IsText(prefix)
    THEN Raise("TypeError", PyStr(<<"expected a character buffer object">>))
    ELSE AssertStmt(IsPrefix(prefix.s, val.s),
                    Format("%(val)r does not start with %(prefix)r",
                           <<Repr(val), Repr(prefix)>>))

(***************************************************************************)
(* assert_rows_equal.  A row is a dict, given as its (key, value) items in *)
(* the dict's own iteration order, or a sequence of values.  An item is    *)
(* [t, k, v]: a (key, value) pair of a dict, or a plain number.            *)
(***************************************************************************)
Keys == {"a", "b"}
Vals == {1, 2}
Pair(k, v) == [t |-> "pair", k |-> k, v |-> v]
Num(v) == [t |-> "int", k |-> "", v |-> v]
DictContents == {[k \in Keys |-> IF k = "a" THEN 1 ELSE v] : v \in Vals}
DictRows == {[dict |-> TRUE, items |-> <<Pair(k1, d[k1]), Pair(k2, d[k2])>>] :
               <<k1, k2, d>> \in {x \in Keys \X Keys \X DictContents : x[1] # x[2]}}
SeqRows == {[dict |-> FALSE, items |-> <<Num(v1), Num(v2)>>] :
              <<v1, v2>> \in {x \in Vals \X Vals : x[1] # x[2]}}
RowSet == DictRows \cup SeqRows
RowLists == UNION {[1..n -> RowSet] : n \in 0..MaxRows}

\* Python 2's order: strings by characters, numbers before tuples, tuples
\* lexicographically
KeyRank(k) == IF k = "a" THEN 1 ELSE 2
KeyLess(j, k) == KeyRank(j) < KeyRank(k)
ItemLess(x, y) ==
    IF x.t = "int" /\ y.t = "int" THEN x.v < y.v
    ELSE IF x.t = "int" THEN TRUE
    ELSE IF y.t = "int" THEN FALSE
    ELSE KeyLess(x.k, y.k) \/ (x.k = y.k /\ x.v < y.v)
RECURSIVE TupleLess(_, _)
TupleLess(s, u) ==
    IF Len(u) = 0 THEN FALSE
    ELSE IF Len(s) = 0 THEN TRUE
    ELSE IF ItemLess(Head(s), Head(u)) THEN TRUE
    ELSE IF ItemLess(Head(u), Head(s)) THEN FALSE
    ELSE TupleLess(Tail(s), Tail(u))

\* x < y for the three kinds of things the function sorts
Less(kind, x, y) ==
    CASE kind = "key" -> KeyLess(x, y)
      [] kind = "item" -> ItemLess(x, y)
      [] OTHER -> TupleLess(x, y)

\* sorted(seq), for a sequence of things of one kind
RECURSIVE Insert(_, _, _)
Insert(x, seq, kind) ==
    IF Len(seq) = 0 THEN <<x>>
    ELSE IF Less(kind, x, Head(seq)) THEN <<x>> \o seq
    ELSE <<Head(seq)>> \o Insert(x, Tail(seq), kind)
RECURSIVE Sorted(_, _)
Sorted(seq, kind) ==
    IF Len(seq) = 0 THEN <<>>
    ELSE Insert(seq[Len(seq)], Sorted(SubSeq(seq, 1, Len(seq) - 1), kind), kind)

\* iterating a dict row yields its keys; row[k] is the value stored under k
KeysOf(row) == [i \in 1..Len(row.items) |-> row.items[i].k]
Lookup(row, k) == row.items[CHOOSE i \in 1..Len(row.items) : row.items[i].k = k].v

NormRow(row) ==
    IF row.dict
    THEN LET ks == Sorted(KeysOf(row), "key")
         IN [i \in 1..Len(ks) |-> Pair(ks[i], Lookup(row, ks[i]))]
    ELSE Sorted(row.items, "item")

\* NormRows without the outer sorted()
NormRowsUnsorted(rows) == [i \in 1..Len(rows) |-> NormRow(rows[i])]

NormRows(rows) == Sorted([i \in 1..Len(rows) |-> NormRow(rows[i])], "tuple")

AssertRowsEqual(rows1, rows2) ==
    LET l == NormRows(rows1)
        r == NormRows(rows2)
    IN AssertStmt(l = r, Format("assertion failed: l == r l: %r r: %r %s", <<l, r>>))

(***************************************************************************)
(* assert_call.  A recorded call is (args, kwargs).                        *)
(***************************************************************************)
CallArgs == {<<v>> : v \in Vals}
CallKwargs == {[n \in names |-> 2] : names \in SUBSET {"kwarg"}}
CallEntries == {[args |-> a, kwargs |-> k] : a \in CallArgs, k \in CallKwargs}
CallLogs == UNION {[1..n -> CallEntries] : n \in 0..MaxCalls}
CallIndexes == -(MaxCalls + 1)..MaxCalls

\* seq[idx] with Python's indexing: a negative idx counts from the end
InIndexRange(seq, idx) == -Len(seq) <= idx /\ idx < Len(seq)
PyIndex(seq, idx) == IF idx >= 0 THEN seq[idx + 1] ELSE seq[Len(seq) + idx + 1]

\* AssertCall indexing the call log without testing it for emptiness
AssertCallUnguarded(calls, call_idx, args, kwargs) ==
    IF ~InIndexRange(calls, call_idx)
    THEN Raise("IndexError", PyStr(<<"list index out of range">>))
    ELSE AssertStmt(PyIndex(calls, call_idx) = [args |-> args, kwargs |-> kwargs],
                    Format("Call %s expected %s, was %s", <<call_idx>>))

AssertCall(calls, call_idx, args, kwargs) ==
    IF Len(calls) > 0 /\ ~InIndexRange(calls, call_idx)
    THEN Raise("IndexError", PyStr(<<"list index out of range">>))
    ELSE LET expected == [args |-> args, kwargs |-> kwargs]
             msg == Format("Call %s expected %s, was %s", <<call_idx, expected>>)
         IN IF Len(calls) > 0
            THEN AssertStmt(PyIndex(calls, call_idx) = expected, msg)
            ELSE AssertStmt(FALSE, msg)

(***************************************************************************)
(* The test body: one assertion call at a time.                            *)
(***************************************************************************)
NoCall == [fn |-> "none"]

Init ==
    /\ pc = "ready"
    /\ call = NoCall
    /\ outcome = Pending
    /\ fnCalls = <<>>

\* assert_raises(*args, **kwargs): with one argument and no keywords it gives
\* the context manager of a `with` statement; otherwise it makes the call
CallAssertRaises ==
    /\ pc = "ready"
    /\ \E args \in RaisesArgs, kwargs \in KwargSets :
         /\ call' = [fn |-> "assert_raises", args |-> args, kwargs |-> kwargs]
         /\ IF IsContextForm(args, kwargs)
            THEN /\ pc' = "manager"
                 /\ UNCHANGED <<outcome, fnCalls>>
            ELSE LET r == AssertRaisesDirect(args, kwargs)
                 IN /\ pc' = "done"
                    /\ outcome' = r.outcome
                    /\ fnCalls' = r.log

\* the `with` statement enters: the generator runs to its yield
WithEnter ==
    /\ pc = "manager"
    /\ pc' = "block"
    /\ UNCHANGED <<call, outcome, fnCalls>>

\* the enclosed block ends, returning or raising, and the `with` statement exits
BlockEnds ==
    /\ pc = "block"
    /\ \E b \in Behaviours :
         /\ call' = [call EXCEPT !.fn = "with assert_raises"] @@ [block |-> b]
         /\ outcome' = WithExit(call.args[1], b)
         /\ pc' = "done"
         /\ UNCHANGED fnCalls

CallAssertNotReached ==
    /\ pc = "ready"
    /\ \E message \in Messages :
         /\ call' = [fn |-> "assert_not_reached", message |-> message]
         /\ outcome' = AssertNotReached(message)
    /\ pc' = "done"
    /\ UNCHANGED fnCalls

CallDiffMessage ==
    /\ pc = "ready"
    /\ \E lhs \in Values, rhs \in Values :
         /\ call' = [fn |-> "_diff_message", lhs |-> lhs, rhs |-> rhs]
         /\ outcome' = Return(DiffMessage(lhs, rhs))
    /\ pc' = "done"
    /\ UNCHANGED fnCalls

CallAssertEqual ==
    /\ pc = "ready"
    /\ \E lval \in Values, rval \in Values, message \in Messages :
         /\ call' = [fn |-> "assert_equal", lval |-> lval, rval |-> rval,
                     message |-> message]
         /\ outcome' = AssertEqual(lval, rval, message)
    /\ pc' = "done"
    /\ UNCHANGED fnCalls

CallAssertNotEqual ==
    /\ pc = "ready"
    /\ \E lval \in Values, rval \in Values, message \in Messages :
         /\ call' = [fn |-> "assert_not_equal", lval |-> lval, rval |-> rval,
                     message |-> message]
         /\ outcome' = AssertNotEqual(lval, rval, message)
    /\ pc' = "done"
    /\ UNCHANGED fnCalls

CallAssertInRange ==
    /\ pc = "ready"
    /\ \E val \in 0..MaxNum, start \in 0..MaxNum, end \in 0..MaxNum,
          message \in Messages, inclusive \in InclusiveArgs :
         /\ call' = [fn |-> "assert_in_range", val |-> val, start |-> start,
                     end |-> end, message |-> message, inclusive |-> inclusive]
         /\ outcome' = AssertInRange(val, start, end, message,
                                     InclusiveOrDefault(inclusive))
    /\ pc' = "done"
    /\ UNCHANGED fnCalls

CallAssertWithinTolerance ==
    /\ pc = "ready"
    /\ \E lval \in -MaxNum..MaxNum, rval \in -MaxNum..MaxNum,
          tolerance \in Tolerances, message \in Messages :
         /\ call' = [fn |-> "assert_within_tolerance", lval |-> lval, rval |-> rval,
                     tolerance |-> tolerance, message |-> message]
         /\ outcome' = AssertWithinTolerance(lval, rval, tolerance, message)
    /\ pc' = "done"
    /\ UNCHANGED fnCalls

CallAssertStartsWith ==
    /\ pc = "ready"
    /\ \E val \in Values, prefix \in Values :
         /\ call' = [fn |-> "assert_starts_with", val |-> val, prefix |-> prefix]
         /\ outcome' = AssertStartsWith(val, prefix)
    /\ pc' = "done"
    /\ UNCHANGED fnCalls

CallAssertRowsEqual ==
    /\ pc = "ready"
    /\ \E rows1 \in RowLists, rows2 \in RowLists :
         /\ call' = [fn |-> "assert_rows_equal", rows1 |-> rows1, rows2 |-> rows2]
         /\ outcome' = AssertRowsEqual(rows1, rows2)
    /\ pc' = "done"
    /\ UNCHANGED fnCalls

CallAssertCall ==
    /\ pc = "ready"
    /\ \E calls \in CallLogs, call_idx \in CallIndexes, e \in CallEntries :
         /\ call' = [fn |-> "assert_call", calls |-> calls, call_idx |-> call_idx,
                     args |-> e.args, kwargs |-> e.kwargs]
         /\ outcome' = AssertCall(calls, call_idx, e.args, e.kwargs)
    /\ pc' = "done"
    /\ UNCHANGED fnCalls

\* the call is over; the test body goes on to its next statement
NextStatement ==
    /\ pc = "done"
    /\ pc' = "ready"
    /\ call' = NoCall
    /\ outcome' = Pending
    /\ fnCalls' = <<>>

Next ==
    \/ CallAssertRaises
    \/ WithEnter
    \/ BlockEnds
    \/ CallAssertNotReached
    \/ CallDiffMessage
    \/ CallAssertEqual
    \/ CallAssertNotEqual
    \/ CallAssertInRange
    \/ CallAssertWithinTolerance
    \/ CallAssertStartsWith
    \/ CallAssertRowsEqual
    \/ CallAssertCall
    \/ NextStatement

Spec == Init /\ [][Next]_vars

(***************************************************************************)
(* Properties of assert_raises.                                            *)
(***************************************************************************)
\* the classes an exception of class c is an instance of
Ancestry(c) ==
    CASE c = "BaseException" -> {"BaseException"}
      [] c = "Exception" -> {"Exception", "BaseException"}
      [] c = "KeyboardInterrupt" -> {"KeyboardInterrupt", "BaseException"}
      [] c = "KeyError" -> {"KeyError", "LookupError", "Exception", "BaseException"}
      [] OTHER -> {c, "Exception", "BaseException"}
NoExceptionText == "No exception was raised (expected %r)"
IsNoExceptionFailure(o) ==
    /\ o.kind = "AssertionError"
    /\ o.msg.s[1] = NoExceptionText

\* the `with` statement is over; a call assert_raises(K, ...) is over
ScopedDone == pc = "done" /\ call.fn = "with assert_raises"
DirectDone == pc = "done" /\ call.fn = "assert_raises"

\* C1: a `with assert_raises(K)` block has three outcomes: a block raising an
\* instance of K is absorbed and the scope exits normally; a block raising
\* nothing makes the scope raise AssertionError "No exception was raised"; a
\* block raising anything else has that same exception leave the scope.
C1_ScopedOutcomes ==
    ScopedDone =>
        LET K == call.args[1]
            b == call.block
        IN /\ (b.kind # "ok" /\ K \in Ancestry(b.kind)) => outcome.kind = "ok"
           /\ b.kind = "ok" => IsNoExceptionFailure(outcome)
           /\ (b.kind # "ok" /\ K \notin Ancestry(b.kind)) => outcome = b

C1_Witness ==
    /\ ScopedDone
    /\ call.args[1] = "LookupError"
    /\ call.block.kind = "ValueError"
    /\ outcome = call.block

\* C2: assert_raises(K, fn, *args, **kwargs) invokes fn exactly once with
\* exactly the given positional and keyword arguments, and ends as the scoped
\* form around that one invocation ends.
C2_DirectCallEquivalence ==
    (DirectDone /\ Len(call.args) >= 2) =>
        /\ fnCalls = <<[args |-> Drop(call.args, 2), kwargs |-> call.kwargs]>>
        /\ outcome = WithExit(call.args[1], call.args[2].behaviour)

\* The same, for calls none of whose keyword arguments is named like a
\* parameter of _assert_raises.
DirectCallEquivalenceNoCollision ==
    (DirectDone /\ Len(call.args) >= 2
       /\ DOMAIN call.kwargs \cap {"exception_class", "callable"} = {}) =>
        /\ fnCalls = <<[args |-> Drop(call.args, 2), kwargs |-> call.kwargs]>>
        /\ outcome = WithExit(call.args[1], call.args[2].behaviour)

\* C10: the AssertionError raised because the block raised nothing is never
\* absorbed: when K is AssertionError or a class above it and the block (or
\* the invoked callable) returns, the scope and the direct call both end with
\* AssertionError "No exception was raised".
C10_SynthesizedNotAbsorbed ==
    /\ (ScopedDone /\ call.block.kind = "ok"
          /\ call.args[1] \in Ancestry("AssertionError"))
         => IsNoExceptionFailure(outcome)
    /\ (DirectDone /\ Len(fnCalls) = 1 /\ call.args[2].behaviour.kind = "ok"
          /\ call.args[1] \in Ancestry("AssertionError"))
         => IsNoExceptionFailure(outcome)

C10_Witness ==
    /\ DirectDone
    /\ Len(fnCalls) = 1
    /\ call.args[2].behaviour.kind = "ok"
    /\ call.args[1] = "Exception"
    /\ IsNoExceptionFailure(outcome)

(***************************************************************************)
(* Properties of the other assertions.                                     *)
(***************************************************************************)
Done(fn) == pc = "done" /\ call.fn = fn
Succeeds == outcome.kind = "ok"
FailsAsAssertion == outcome.kind = "AssertionError"

\* C3: every assertion function other than assert_raises returns normally or
\* raises AssertionError, and nothing else, on every input.
C3_OnlyAssertionFailure ==
    (pc = "done" /\ call.fn \notin {"assert_raises", "with assert_raises"})
        => (Succeeds \/ FailsAsAssertion)

\* C4: assert_rows_equal succeeds iff every row content (the items of a row,
\* whatever their order) occurs as often in rows1 as in rows2; permuting the
\* rows of either argument or the items inside a row leaves the outcome as it is.
Content(row) ==
    [x \in {row.items[i] : i \in 1..Len(row.items)} |->
        Cardinality({i \in 1..Len(row.items) : row.items[i] = x})]
Occurrences(rows, c) == Cardinality({i \in 1..Len(rows) : Content(rows[i]) = c})
Contents(rows) == {Content(rows[i]) : i \in 1..Len(rows)}
SameMultiset(rows1, rows2) ==
    \A c \in Contents(rows1) \cup Contents(rows2) :
        Occurrences(rows1, c) = Occurrences(rows2, c)
\* seq with its elements at i and i + 1 exchanged
Swapped(seq, i) ==
    [j \in 1..Len(seq) |-> IF j = i THEN seq[i + 1] ELSE IF j = i + 1 THEN seq[i] ELSE seq[j]]
\* the row lists got from rows by exchanging two neighbouring rows, or two
\* neighbouring items inside one row; these exchanges generate every
\* permutation of the rows and of the items of each row
Rearrangements(rows) ==
    {Swapped(rows, i) : i \in 1..(Len(rows) - 1)}
      \cup UNION {{[rows EXCEPT ![i] = [dict |-> rows[i].dict,
                                         items |-> Swapped(rows[i].items, j)]] :
                     j \in 1..(Len(rows[i].items) - 1)} : i \in 1..Len(rows)}

C4_RowsMultisetEquality ==
    Done("assert_rows_equal") =>
        /\ Succeeds <=> SameMultiset(call.rows1, call.rows2)
        /\ ~Succeeds => FailsAsAssertion
        /\ \A r1 \in Rearrangements(call.rows1) :
              AssertRowsEqual(r1, call.rows2).kind = outcome.kind
        /\ \A r2 \in Rearrangements(call.rows2) :
              AssertRowsEqual(call.rows1, r2).kind = outcome.kind

C4_Witness ==
    /\ Done("assert_rows_equal")
    /\ Succeeds
    /\ Len(call.rows1) = 2
    /\ call.rows1[1].dict /\ Len(call.rows1[1].items) = 2
    /\ call.rows1[1] # call.rows1[2]
    /\ call.rows2[1] # call.rows1[1]
    /\ call.rows2[2] # call.rows1[1]

\* C5: assert_in_range(v, s, e, inclusive=True) succeeds iff s <= v <= e;
\* with inclusive False or omitted it succeeds iff s < v < e; the message
\* changes nothing of that, and a call that does not succeed raises
\* AssertionError.
C5_InRange ==
    Done("assert_in_range") =>
        /\ call.inclusive = "True" =>
              (Succeeds <=> call.val \in call.start..call.end)
        /\ call.inclusive \in {"False", "omitted"} =>
              (Succeeds <=> call.val \in (call.start + 1)..(call.end - 1))
        /\ ~Succeeds => FailsAsAssertion

C5_Witness ==
    /\ Done("assert_in_range")
    /\ call.inclusive = "omitted"
    /\ call.val = call.start
    /\ call.val < call.end
    /\ FailsAsAssertion

\* C6: for lval # 0, assert_within_tolerance succeeds iff |lval - rval| / lval,
\* the denominator being lval with its sign, is strictly less than tolerance.
C6_WithinTolerance ==
    (Done("assert_within_tolerance") /\ call.lval # 0) =>
        LET d == Abs(call.lval - call.rval)
            tn == call.tolerance[1]
            td == call.tolerance[2]
        IN /\ call.lval > 0 => (Succeeds <=> d * td < tn * call.lval)
           /\ call.lval < 0 => (Succeeds <=> d * td > tn * call.lval)
           /\ ~Succeeds => FailsAsAssertion

C6_Witness ==
    /\ Done("assert_within_tolerance")
    /\ call.lval = -1
    /\ call.rval = 3
    /\ call.tolerance[1] = 1
    /\ Succeeds

\* C7 as first stated: assert_equal succeeds iff l == r and assert_not_equal
\* iff l != r, whatever the message; so assert_equal(a, a) always succeeds and
\* assert_not_equal(a, a) always fails.
EqualityByOperands ==
    /\ Done("assert_equal") =>
          /\ Succeeds <=> PyEq(call.lval, call.rval)
          /\ ~Succeeds => FailsAsAssertion
          /\ \A m \in Messages :
                AssertEqual(call.lval, call.rval, m).kind = outcome.kind
    /\ Done("assert_not_equal") =>
          /\ Succeeds <=> PyNe(call.lval, call.rval)
          /\ ~Succeeds => FailsAsAssertion
          /\ \A m \in Messages :
                AssertNotEqual(call.lval, call.rval, m).kind = outcome.kind
C7_Original ==
    /\ EqualityByOperands
    /\ (Done("assert_equal") /\ call.lval = call.rval) => Succeeds
    /\ (Done("assert_not_equal") /\ call.lval = call.rval) => FailsAsAssertion

\* C7: assert_equal succeeds iff l == r and assert_not_equal iff l != r,
\* whatever the message; so assert_equal(a, a) succeeds and
\* assert_not_equal(a, a) fails for every a that equals itself (every value
\* but a NaN).
C7_EqualityAmended ==
    /\ EqualityByOperands
    /\ (Done("assert_equal") /\ call.lval = call.rval /\ call.lval # NaN)
          => Succeeds
    /\ (Done("assert_not_equal") /\ call.lval = call.rval /\ call.lval # NaN)
          => FailsAsAssertion

C7_Witness ==
    /\ Done("assert_not_equal")
    /\ call.lval = PyStr(<<"a">>)
    /\ call.rval = call.lval
    /\ call.message = PyStr(<<"m">>)
    /\ FailsAsAssertion
    /\ outcome.msg = call.message

\* C8: assert_call succeeds iff the call log has an entry at index i (counted
\* from the end when i is negative, as Python indexes) and that entry equals
\* (args, kwargs); on an empty call log it raises AssertionError for every i.
C8_AssertCall ==
    Done("assert_call") =>
        LET n == Len(call.calls)
            position == IF call.call_idx >= 0 THEN call.call_idx + 1
                        ELSE n + call.call_idx + 1
        IN /\ Succeeds <=>
                 /\ position \in 1..n
                 /\ call.calls[position].args = call.args
                 /\ call.calls[position].kwargs = call.kwargs
           /\ n = 0 => FailsAsAssertion

C8_Witness ==
    /\ Done("assert_call")
    /\ Len(call.calls) = 2
    /\ call.call_idx = 1
    /\ call.calls[1] # call.calls[2]
    /\ Succeeds

\* C9: _diff_message hands both operands unchanged to the highlighter only
\* when both are text; in every other case it hands over the repr() of both.
C9_BothConverted ==
    Done("_diff_message") =>
        LET handed == <<outcome.msg.s[2][2], outcome.msg.s[2][3]>>
        IN IF IsText(call.lhs) /\ IsText(call.rhs)
           THEN handed = <<call.lhs.s, call.rhs.s>>
           ELSE handed = <<Repr(call.lhs), Repr(call.rhs)>>

====
